---- MODULE Spec2Model ----
(***************************************************************************)
(* A model of src/backup/tenor_dates.py: class TenorDates, the FX tenor    *)
(* date engine.  An engine is a currency pair (self.ccy); every method is  *)
(* a function of the pair, the holiday calendars (the `holidays` package,  *)
(* here the variable oracle) and its arguments.                            *)
(*                                                                         *)
(* Dates are proleptic Gregorian ordinals (datetime.toordinal()), strings  *)
(* are sequences of one-character strings, and the outcome of a call is a  *)
(* record: err = "" and the returned value in val, or err = the name of    *)
(* the exception the call raises.  Arguments are datetimes at midnight,    *)
(* so the assertions on an argument's type pass; assert statements are     *)
(* executed.  populate_expiry_dates, which formats the outcomes of         *)
(* expiry_from_tenor over standard_tenors, is not modelled.                *)
(***************************************************************************)
EXTENDS Integers, Sequences, FiniteSets, TLC

VARIABLES
    ccy,        \* self.ccy of the constructed engine
    oracle,     \* the holiday calendars: country code -> set of dates
    op,         \* the method called last ("none" right after construction)
    date,       \* its date argument (date, horizon_date, spot_date, start_date)
    end_date,   \* bdate_range's end_date
    tenor,      \* expiry_from_tenor's tenor
    result,     \* the outcome of the call
    walk        \* the frames of a directional walk executed step by step

vars == <<ccy, oracle, op, date, end_date, tenor, result, walk>>

----------------------------------------------------------------------------
(* Outcomes *)

Ok(v) == [err |-> "", val |-> v]

Raise(e) == [err |-> e, val |-> e]

IsErr(r) == r.err # ""

----------------------------------------------------------------------------
(* Python str operations used by the class *)

\* sub in s
StrIn(sub, s) ==
    \E i \in 1..(Len(s) - Len(sub) + 1) : SubSeq(s, i, i + Len(sub) - 1) = sub

\* s.replace(old, ""): every non-overlapping occurrence, left to right
RECURSIVE StrRemove(_, _)
StrRemove(s, old) ==
    IF Len(s) < Len(old) THEN s
    ELSE IF SubSeq(s, 1, Len(old)) = old
         THEN StrRemove(SubSeq(s, Len(old) + 1, Len(s)), old)
         ELSE <<Head(s)>> \o StrRemove(Tail(s), old)

\* x in list
InList(x, list) == \E i \in DOMAIN list : list[i] = x

\* s[a:b] with 0 <= a <= b (Python slicing clamps to the length)
Slice(s, a, b) ==
    SubSeq(s, a + 1, IF b < Len(s) THEN b ELSE Len(s))

Digits == <<"0", "1", "2", "3", "4", "5", "6", "7", "8", "9">>

DigitValue(ch) == (CHOOSE i \in DOMAIN Digits : Digits[i] = ch) - 1

RECURSIVE DigitsValue(_)
DigitsValue(s) ==
    IF s = <<>> THEN 0
    ELSE 10 * DigitsValue(SubSeq(s, 1, Len(s) - 1)) + DigitValue(s[Len(s)])

AllDigits(s) == s # <<>> /\ \A i \in DOMAIN s : InList(s[i], Digits)

\* int(s) for s over the digits, the signs and letters: an optional sign and
\* at least one decimal digit, anything else raises ValueError
PyInt(s) ==
    IF s # <<>> /\ s[1] \in {"-", "+"}
    THEN IF AllDigits(Tail(s))
         THEN Ok((IF s[1] = "-" THEN -1 ELSE 1) * DigitsValue(Tail(s)))
         ELSE Raise("ValueError")
    ELSE IF AllDigits(s) THEN Ok(DigitsValue(s)) ELSE Raise("ValueError")

----------------------------------------------------------------------------
(* datetime, timedelta and relativedelta on ordinals *)

IsLeap(y) == (y % 4 = 0) /\ ((y % 100 # 0) \/ (y % 400 = 0))

DaysInMonth(y, m) ==
    IF m = 2 THEN (IF IsLeap(y) THEN 29 ELSE 28)
    ELSE IF m \in {4, 6, 9, 11} THEN 30 ELSE 31

DaysBeforeYear(y) ==
    LET p == y - 1 IN p * 365 + (p \div 4) - (p \div 100) + (p \div 400)

RECURSIVE DaysBeforeMonth(_, _)
DaysBeforeMonth(y, m) ==
    IF m = 1 THEN 0 ELSE DaysBeforeMonth(y, m - 1) + DaysInMonth(y, m - 1)

\* datetime(y, m, d).toordinal()
Ordinal(y, m, d) == DaysBeforeYear(y) + DaysBeforeMonth(y, m) + d

\* date.year
YearOf(n) ==
    CHOOSE y \in (n \div 366)..((n \div 365) + 1) :
        DaysBeforeYear(y) < n /\ n <= DaysBeforeYear(y + 1)

\* date.month
MonthOf(n) ==
    LET y == YearOf(n)
        k == n - DaysBeforeYear(y)
    IN CHOOSE m \in 1..12 :
        DaysBeforeMonth(y, m) < k /\ k <= DaysBeforeMonth(y, m) + DaysInMonth(y, m)

\* date.day
DayOf(n) ==
    LET y == YearOf(n) IN n - DaysBeforeYear(y) - DaysBeforeMonth(y, MonthOf(n))

\* date.weekday(): Monday is 0
Weekday(n) == (n + 6) % 7

\* bool(len(pd.bdate_range(date, date))): the date is Monday to Friday
IsWeekday(n) == Weekday(n) < 5

\* date + relativedelta(months = k): the day is clamped to the month's length
AddMonths(n, k) ==
    LET t  == YearOf(n) * 12 + (MonthOf(n) - 1) + k
        y  == t \div 12
        m  == (t % 12) + 1
        dd == DayOf(n)
        ml == DaysInMonth(y, m)
    IN Ordinal(y, m, IF dd < ml THEN dd ELSE ml)

----------------------------------------------------------------------------
(* Class attributes *)

USD == <<"U", "S", "D">>
GBP == <<"G", "B", "P">>
EUR == <<"E", "U", "R">>
JPY == <<"J", "P", "Y">>
CHF == <<"C", "H", "F">>
AUD == <<"A", "U", "D">>
CAD == <<"C", "A", "D">>
NZD == <<"N", "Z", "D">>
SEK == <<"S", "E", "K">>
NOK == <<"N", "O", "K">>

supported_ccy == <<USD, GBP, EUR, JPY, CHF, AUD, CAD, NZD, SEK, NOK>>

ccy_country_code ==
    (USD :> <<"United States", "US">>) @@
    (GBP :> <<"United Kingdom", "GB">>) @@
    (EUR :> <<"Europe", "ECB">>) @@
    (JPY :> <<"Japan", "JP">>) @@
    (CHF :> <<"Switzerland", "CH">>) @@
    (AUD :> <<"Australia", "AU">>) @@
    (CAD :> <<"Canada", "CA">>) @@
    (NZD :> <<"New Zealand", "NZ">>) @@
    (SEK :> <<"Sweden", "SE">>) @@
    (NOK :> <<"Norway", "NO">>)

Countries == {ccy_country_code[c][2] : c \in DOMAIN ccy_country_code}

\* the pairs spot_from_horizon and horizon_from_spot settle T+1
FastSettling ==
    <<USD \o CAD,
      USD \o <<"T", "R", "Y">>,
      USD \o <<"P", "H", "P">>,
      USD \o <<"R", "U", "B">> >>

\* TenorDates.__init__: whether the constructor's assertions accept the string
init_accepts(c) ==
    /\ Len(c) = 6
    /\ InList(Slice(c, 0, 3), supported_ccy)
    /\ InList(Slice(c, 3, 6), supported_ccy)

----------------------------------------------------------------------------
(* The three predicates *)

\* holidays.country_holidays(code), and `date in` it
country_holidays(o, code) == o[code]

is_business_day(c, o, d) ==
    IF StrIn(USD, c)
    THEN LET other == StrRemove(c, USD) IN
         IF other \notin DOMAIN ccy_country_code
         THEN Raise("KeyError")
         ELSE Ok(IsWeekday(d)
                 /\ d \notin country_holidays(o, ccy_country_code[other][2]))
    ELSE LET ccy1 == Slice(c, 0, 3)
             ccy2 == Slice(c, 3, 6)
         IN Ok(/\ IsWeekday(d)
               /\ d \notin country_holidays(o, ccy_country_code[ccy1][2])
               /\ d \notin country_holidays(o, ccy_country_code[ccy2][2]))

is_valid_spot(c, o, d) ==
    LET us_holidays == country_holidays(o, ccy_country_code[USD][2])
        b == is_business_day(c, o, d)
    IN IF IsErr(b) THEN b ELSE Ok(b.val /\ d \notin us_holidays)

is_valid_expiry(c, o, d) ==
    LET ccy1 == Slice(c, 0, 3)
        ccy2 == Slice(c, 3, 6)
    IN Ok(/\ IsWeekday(d)
          /\ ~(DayOf(d) = 1 /\ MonthOf(d) = 1)
          /\ \/ d \notin country_holidays(o, ccy_country_code[ccy1][2])
             \/ d \notin country_holidays(o, ccy_country_code[ccy2][2]))

----------------------------------------------------------------------------
(* The six directional walks: step one day, test, recurse.  An exception   *)
(* of the predicate propagates.  The recursion ends because every calendar *)
(* of the specification Spec holds finitely many holidays.                 *)

RECURSIVE next_business_day(_, _, _)
next_business_day(c, o, d) ==
    LET nd == d + 1
        p  == is_business_day(c, o, nd)
    IN IF IsErr(p) THEN p
       ELSE IF p.val THEN Ok(nd) ELSE next_business_day(c, o, nd)

RECURSIVE prev_business_day(_, _, _)
prev_business_day(c, o, d) ==
    LET nd == d - 1
        p  == is_business_day(c, o, nd)
    IN IF IsErr(p) THEN p
       ELSE IF p.val THEN Ok(nd) ELSE prev_business_day(c, o, nd)

\* next_valid_spot as it would be if the test came before the step
RECURSIVE next_valid_spot_unstepped(_, _, _)
next_valid_spot_unstepped(c, o, d) ==
    LET p == is_valid_spot(c, o, d)
    IN IF IsErr(p) THEN p
       ELSE IF p.val THEN Ok(d) ELSE next_valid_spot_unstepped(c, o, d + 1)

RECURSIVE next_valid_spot(_, _, _)
next_valid_spot(c, o, d) ==
    LET nd == d + 1
        p  == is_valid_spot(c, o, nd)
    IN IF IsErr(p) THEN p
       ELSE IF p.val THEN Ok(nd) ELSE next_valid_spot(c, o, nd)

RECURSIVE prev_valid_spot(_, _, _)
prev_valid_spot(c, o, d) ==
    LET nd == d - 1
        p  == is_valid_spot(c, o, nd)
    IN IF IsErr(p) THEN p
       ELSE IF p.val THEN Ok(nd) ELSE prev_valid_spot(c, o, nd)

RECURSIVE next_valid_expiry(_, _, _)
next_valid_expiry(c, o, d) ==
    LET nd == d + 1
        p  == is_valid_expiry(c, o, nd)
    IN IF IsErr(p) THEN p
       ELSE IF p.val THEN Ok(nd) ELSE next_valid_expiry(c, o, nd)

RECURSIVE prev_valid_expiry(_, _, _)
prev_valid_expiry(c, o, d) ==
    LET nd == d - 1
        p  == is_valid_expiry(c, o, nd)
    IN IF IsErr(p) THEN p
       ELSE IF p.val THEN Ok(nd) ELSE prev_valid_expiry(c, o, nd)

----------------------------------------------------------------------------
(* Spot <-> horizon *)

\* spot_from_horizon as it would be if every pair settled T+1
spot_from_horizon_t1(c, o, h) ==
    LET b == is_business_day(c, o, h) IN
    IF IsErr(b) THEN b
    ELSE IF ~b.val THEN Raise("AssertionError")
    ELSE next_valid_spot(c, o, h)

spot_from_horizon(c, o, h) ==
    LET b == is_business_day(c, o, h) IN
    IF IsErr(b) THEN b
    ELSE IF ~b.val THEN Raise("AssertionError")
    ELSE IF InList(c, FastSettling)
         THEN next_valid_spot(c, o, h)
         ELSE LET nb == next_business_day(c, o, h) IN
              IF IsErr(nb) THEN nb ELSE next_valid_spot(c, o, nb.val)

\* horizon_from_spot as it would be without its assertion
horizon_from_spot_unchecked(c, o, s) ==
    IF InList(c, FastSettling)
    THEN prev_valid_expiry(c, o, s)
    ELSE LET pb == prev_business_day(c, o, s) IN
         IF IsErr(pb) THEN pb ELSE prev_valid_expiry(c, o, pb.val)

horizon_from_spot(c, o, s) ==
    LET v == is_valid_spot(c, o, s) IN
    IF IsErr(v) THEN v
    ELSE IF ~v.val THEN Raise("AssertionError")
    ELSE IF InList(c, FastSettling)
         THEN prev_valid_expiry(c, o, s)
         ELSE LET pb == prev_business_day(c, o, s) IN
              IF IsErr(pb) THEN pb ELSE prev_valid_expiry(c, o, pb.val)

----------------------------------------------------------------------------
(* Tenor resolution *)

\* the outcome of expiry_from_tenor: the value returned or the exception
\* raised, the return statement taken, and the locals spot_date and
\* delivery_date of the month/year branch (0 where they are not set)
Outcome(r, branch, spot, delivery) ==
    [err |-> r.err, val |-> r.val, branch |-> branch,
     spot |-> spot, delivery |-> delivery]

\* the D and W branches as they would be if expiry were returned as computed
expiry_unadjusted(c, o, expiry) == Ok(expiry)

\* the D and W branches once expiry is computed: the date itself when it is
\* a valid expiry, the next valid expiry otherwise
expiry_or_next(c, o, expiry) ==
    IF is_valid_expiry(c, o, expiry).val
    THEN Ok(expiry)
    ELSE next_valid_expiry(c, o, expiry)

\* the month/year branch's while loop: back one valid spot at a time while
\* delivery_date.month - spot_date.month exceeds n_months
RECURSIVE delivery_step_back(_, _, _, _, _)
delivery_step_back(c, o, delivery, spot, n_months) ==
    IF MonthOf(delivery) - MonthOf(spot) > n_months
    THEN LET p == prev_valid_spot(c, o, delivery) IN
         IF IsErr(p) THEN p
         ELSE delivery_step_back(c, o, p.val, spot, n_months)
    ELSE Ok(delivery)

\* delivery_date once spot_date + relativedelta(months = n_months) is
\* computed: the date itself when it is a valid spot, the next valid spot
\* otherwise
valid_spot_or_next(c, o, delivery) ==
    LET v == is_valid_spot(c, o, delivery) IN
    IF IsErr(v) THEN v
    ELSE IF v.val THEN Ok(delivery) ELSE next_valid_spot(c, o, delivery)

\* the month/year branch's two return statements, e the outcome of
\* horizon_from_spot(delivery_date)
expiry_return(c, o, spot, delivery, e) ==
    IF IsErr(e) THEN Outcome(e, "raise", spot, delivery)
    ELSE IF is_valid_expiry(c, o, e.val).val
    THEN Outcome(e, "MY", spot, delivery)
    ELSE Outcome(prev_valid_expiry(c, o, e.val), "MY_step_back", spot, delivery)

\* ... from the end of the while loop on, d2 its outcome
expiry_from_delivery(c, o, spot, d2) ==
    IF IsErr(d2) THEN Outcome(d2, "raise", spot, 0)
    ELSE expiry_return(c, o, spot, d2.val, horizon_from_spot(c, o, d2.val))

\* ... from the while loop on, d1 the outcome of the forward snap
expiry_from_snapped(c, o, spot, n_months, d1) ==
    IF IsErr(d1) THEN Outcome(d1, "raise", spot, 0)
    ELSE expiry_from_delivery(c, o, spot,
             delivery_step_back(c, o, d1.val, spot, n_months))

\* ... from delivery_date on, sp the outcome of spot_from_horizon
expiry_from_spot(c, o, n_months, sp) ==
    IF IsErr(sp) THEN Outcome(sp, "raise", 0, 0)
    ELSE expiry_from_snapped(c, o, sp.val, n_months,
             valid_spot_or_next(c, o, AddMonths(sp.val, n_months)))

\* the month/year branch from n_months on
expiry_from_months(c, o, h, n_months) ==
    expiry_from_spot(c, o, n_months, spot_from_horizon(c, o, h))

\* the branches that call int(tenor[:-1]), n its outcome
expiry_from_count(c, o, h, unit, n) ==
    IF IsErr(n) THEN Outcome(n, "raise", 0, 0)
    ELSE IF unit \in {"D", "W"}
    THEN Outcome(expiry_or_next(c, o,
                     h + (IF unit = "D" THEN n.val ELSE n.val * 7)),
                 unit, 0, 0)
    ELSE expiry_from_months(c, o, h,
             IF unit = "M" THEN n.val ELSE n.val * 12)

expiry_from_tenor(c, o, h, t) ==
    IF t = <<"O", "N">>
    THEN Outcome(next_valid_expiry(c, o, h), "ON", 0, 0)
    ELSE IF t = <<>>
    THEN Outcome(Raise("IndexError"), "raise", 0, 0)
    ELSE IF t[Len(t)] \in {"D", "W", "M", "Y"}
    THEN expiry_from_count(c, o, h, t[Len(t)], PyInt(SubSeq(t, 1, Len(t) - 1)))
    ELSE Outcome(Raise("InputError"), "raise", 0, 0)

----------------------------------------------------------------------------
(* Business-day range *)

\* pd.bdate_range(start, end) filtered by is_business_day, in order; the
\* first exception of is_business_day ends the comprehension
RECURSIVE bdate_range(_, _, _, _)
bdate_range(c, o, start_date, end_date0) ==
    IF start_date > end_date0 THEN Ok(<<>>)
    ELSE IF ~IsWeekday(start_date)
    THEN bdate_range(c, o, start_date + 1, end_date0)
    ELSE LET b == is_business_day(c, o, start_date) IN
         IF IsErr(b) THEN b
         ELSE LET rest == bdate_range(c, o, start_date + 1, end_date0) IN
              IF IsErr(rest) THEN rest
              ELSE Ok((IF b.val THEN <<start_date>> ELSE <<>>) \o rest.val)

----------------------------------------------------------------------------
(* Inputs *)

\* how many consecutive dates the methods are called with
NumDates == 49

\* bdate_range is called with end_date up to MaxRange days after start_date
\* (and down to two days before it)
MaxRange == 9

\* the frames the interpreter allows a walk before it raises RecursionError
\* (sys.getrecursionlimit(), scaled down)
RecursionLimit == 12

\* the search horizon a bounded walk would have, in single-day steps
MaxSearchDays == 7

FirstDate == Ordinal(2014, 12, 22)

\* the dates the methods are called with: 22 Dec 2014 (a Monday) onwards
Dates == FirstDate..(FirstDate + NumDates - 1)

ModelCodes == {USD, EUR, CAD}

\* the strings the constructor is called with: every pair of three supported
\* codes, a pair of the fast-settling list with an unsupported leg, and a
\* string of five characters
CandidatePairs ==
    {a \o b : a \in ModelCodes, b \in ModelCodes}
        \cup {FastSettling[2], <<"E", "U", "R", "U", "S">>}

Pairs == {c \in CandidatePairs : init_accepts(c)}

Calendar(us, ecb, ca) ==
    [k \in Countries |->
        IF k = "US" THEN us ELSE IF k = "ECB" THEN ecb
        ELSE IF k = "CA" THEN ca ELSE {}]

Christmas == Ordinal(2014, 12, 25)
BoxingDay == Ordinal(2014, 12, 26)
NewYear   == Ordinal(2015, 1, 1)
MLKDay    == Ordinal(2015, 1, 19)

\* the holiday calendars of the specification Spec: none at all; the public
\* holidays of the period; one with month ends closed; one with a Monday
\* closed in Canada alone and New Year open everywhere
Oracles ==
    { Calendar({}, {}, {}),
      Calendar({Christmas, NewYear, MLKDay, Ordinal(2015, 2, 16)},
               {Christmas, BoxingDay, NewYear},
               {Christmas, BoxingDay, NewYear}),
      Calendar({NewYear, Ordinal(2015, 1, 30)},
               {NewYear, Ordinal(2015, 2, 27), Ordinal(2016, 1, 29)},
               {NewYear, Ordinal(2015, 1, 30)}),
      Calendar({Christmas}, {Christmas}, {Christmas, Ordinal(2015, 1, 12)}) }

\* a calendar on which every day a walk can reach is a holiday everywhere
Blocked ==
    LET all == (FirstDate - RecursionLimit - 1)
                   ..(FirstDate + NumDates + RecursionLimit)
    IN [k \in Countries |-> all]

WalkOracles == Oracles \cup {Blocked}

\* the tenors expiry_from_tenor is called with: of the grammar, and not.
\* Negative month counts are left out: with them the while loop of the
\* month/year branch can walk back without end.
Tenors ==
    { <<"O", "N">>, <<"1", "D">>, <<"3", "D">>, <<"1", "0", "D">>,
      <<"1", "W">>, <<"1", "M">>, <<"2", "M">>, <<"1", "2", "M">>,
      <<"1", "Y">>, <<"0", "M">>,
      <<"5", "X">>, <<"0", "D">>, <<"-", "1", "W">>, <<"X", "D">>,
      <<"D">>, <<>> }

WalkKinds ==
    {"next_business_day", "prev_business_day", "next_valid_spot",
     "prev_valid_spot", "next_valid_expiry", "prev_valid_expiry"}

Idle == [pc |-> "idle", kind |-> "none", start |-> 0, cur |-> 0, depth |-> 0]

----------------------------------------------------------------------------
(* The engine after construction, and one action per method *)

Init ==
    /\ ccy \in Pairs
    /\ oracle \in Oracles
    /\ op = "none"
    /\ date = FirstDate
    /\ end_date = FirstDate
    /\ tenor = <<>>
    /\ result = Ok(0)
    /\ walk = Idle

\* a call on the idle engine: the arguments and the outcome are recorded
Call(name, d, e, t, r) ==
    /\ op = "none"
    /\ op' = name
    /\ date' = d
    /\ end_date' = e
    /\ tenor' = t
    /\ result' = r
    /\ UNCHANGED <<ccy, oracle, walk>>

IsBusinessDay ==
    \E d \in Dates : Call("is_business_day", d, d, <<>>, is_business_day(ccy, oracle, d))

IsValidSpot ==
    \E d \in Dates : Call("is_valid_spot", d, d, <<>>, is_valid_spot(ccy, oracle, d))

IsValidExpiry ==
    \E d \in Dates : Call("is_valid_expiry", d, d, <<>>, is_valid_expiry(ccy, oracle, d))

NextBusinessDay ==
    \E d \in Dates : Call("next_business_day", d, d, <<>>, next_business_day(ccy, oracle, d))

PrevBusinessDay ==
    \E d \in Dates : Call("prev_business_day", d, d, <<>>, prev_business_day(ccy, oracle, d))

NextValidSpot ==
    \E d \in Dates : Call("next_valid_spot", d, d, <<>>, next_valid_spot(ccy, oracle, d))

PrevValidSpot ==
    \E d \in Dates : Call("prev_valid_spot", d, d, <<>>, prev_valid_spot(ccy, oracle, d))

NextValidExpiry ==
    \E d \in Dates : Call("next_valid_expiry", d, d, <<>>, next_valid_expiry(ccy, oracle, d))

PrevValidExpiry ==
    \E d \in Dates : Call("prev_valid_expiry", d, d, <<>>, prev_valid_expiry(ccy, oracle, d))

SpotFromHorizon ==
    \E d \in Dates : Call("spot_from_horizon", d, d, <<>>, spot_from_horizon(ccy, oracle, d))

HorizonFromSpot ==
    \E d \in Dates : Call("horizon_from_spot", d, d, <<>>, horizon_from_spot(ccy, oracle, d))

ExpiryFromTenor ==
    \E d \in Dates, t \in Tenors :
        Call("expiry_from_tenor", d, d, t, expiry_from_tenor(ccy, oracle, d, t))

BdateRange ==
    \E d \in Dates : \E e \in (d - 2)..(d + MaxRange) :
        Call("bdate_range", d, e, <<>>, bdate_range(ccy, oracle, d, e))

\* the caller takes the outcome; the engine keeps nothing of the call
Return ==
    /\ op # "none"
    /\ op' = "none"
    /\ date' = FirstDate
    /\ end_date' = FirstDate
    /\ tenor' = <<>>
    /\ result' = Ok(0)
    /\ UNCHANGED <<ccy, oracle, walk>>

Next ==
    \/ IsBusinessDay
    \/ IsValidSpot
    \/ IsValidExpiry
    \/ NextBusinessDay
    \/ PrevBusinessDay
    \/ NextValidSpot
    \/ PrevValidSpot
    \/ NextValidExpiry
    \/ PrevValidExpiry
    \/ SpotFromHorizon
    \/ HorizonFromSpot
    \/ ExpiryFromTenor
    \/ BdateRange
    \/ Return

Spec == Init /\ [][Next]_vars

----------------------------------------------------------------------------
(* A directional walk frame by frame.  Each frame of the recursion steps   *)
(* one day, tests the predicate and either returns the date (through every *)
(* frame below it) or calls itself.  The code counts no steps; what ends a *)
(* walk that finds nothing is the interpreter's recursion limit, which     *)
(* raises RecursionError.                                                  *)

Predicate(kind, c, o, d) ==
    IF kind \in {"next_business_day", "prev_business_day"}
    THEN is_business_day(c, o, d)
    ELSE IF kind \in {"next_valid_spot", "prev_valid_spot"}
    THEN is_valid_spot(c, o, d)
    ELSE is_valid_expiry(c, o, d)

Direction(kind) ==
    IF kind \in {"next_business_day", "next_valid_spot", "next_valid_expiry"}
    THEN 1 ELSE -1

WalkInit ==
    /\ ccy \in Pairs
    /\ oracle \in WalkOracles
    /\ op = "none"
    /\ date = FirstDate
    /\ end_date = FirstDate
    /\ tenor = <<>>
    /\ result = Ok(0)
    /\ walk = Idle

WalkCall ==
    /\ walk.pc = "idle"
    /\ \E k \in WalkKinds, d \in Dates :
          walk' = [pc |-> "walking", kind |-> k, start |-> d, cur |-> d,
                   depth |-> 1]
    /\ UNCHANGED <<ccy, oracle, op, date, end_date, tenor, result>>

WalkStep ==
    /\ walk.pc = "walking"
    /\ LET nd == walk.cur + Direction(walk.kind)
           p  == Predicate(walk.kind, ccy, oracle, nd)
       IN walk' =
            IF IsErr(p) THEN [walk EXCEPT !.pc = p.err, !.cur = nd]
            ELSE IF p.val THEN [walk EXCEPT !.pc = "returned", !.cur = nd]
            ELSE IF walk.depth < RecursionLimit
            THEN [walk EXCEPT !.cur = nd, !.depth = walk.depth + 1]
            ELSE [walk EXCEPT !.pc = "RecursionError", !.cur = nd]
    /\ UNCHANGED <<ccy, oracle, op, date, end_date, tenor, result>>

\* the walk's caller takes the date or the exception
WalkReturn ==
    /\ walk.pc \notin {"idle", "walking"}
    /\ walk' = Idle
    /\ UNCHANGED <<ccy, oracle, op, date, end_date, tenor, result>>

WalkNext == WalkCall \/ WalkStep \/ WalkReturn

WalkSpec == WalkInit /\ [][WalkNext]_vars

----------------------------------------------------------------------------
(* Properties *)

\* the call returned TRUE
Holds(r) == r.err = "" /\ r.val

Leg1 == SubSeq(ccy, 1, 3)

Leg2 == SubSeq(ccy, 4, 6)

Closed(leg, d) == d \in oracle[ccy_country_code[leg][2]]

MonthIndex(n) == YearOf(n) * 12 + MonthOf(n)

Between(a, b) == IF a < b THEN (a + 1)..(b - 1) ELSE (b + 1)..(a - 1)

\* a tenor of the grammar: ON, or a positive decimal count followed by one
\* of D, W, M, Y
WellFormedTenor(t) ==
    \/ t = <<"O", "N">>
    \/ /\ Len(t) >= 2
       /\ t[Len(t)] \in {"D", "W", "M", "Y"}
       /\ AllDigits(SubSeq(t, 1, Len(t) - 1))
       /\ DigitsValue(SubSeq(t, 1, Len(t) - 1)) > 0

\* C1: a directional walk that returns a date r from d returns a date
\* strictly after d (next) or strictly before d (prev) that satisfies the
\* walk's predicate, with no date strictly between d and r satisfying it;
\* in particular r is never d.
C1_WalkNearest ==
    (op \in WalkKinds /\ result.err = "") =>
        /\ op \in {"next_business_day", "next_valid_spot", "next_valid_expiry"}
              => result.val > date
        /\ op \in {"prev_business_day", "prev_valid_spot", "prev_valid_expiry"}
              => result.val < date
        /\ Holds(Predicate(op, ccy, oracle, result.val))
        /\ \A x \in Between(date, result.val) :
              ~Holds(Predicate(op, ccy, oracle, x))

\* a walk from a date that satisfies the predicate itself, which skipped
\* at least one day
C1_Witness ==
    /\ op = "next_valid_spot"
    /\ Holds(is_valid_spot(ccy, oracle, date))
    /\ result.err = ""
    /\ result.val > date + 1

\* C2: from a business-day horizon h spot_from_horizon returns
\* next_valid_spot(h) for a pair of the fast-settling list and
\* next_valid_spot(next_business_day(h)) for any other pair; the result is a
\* valid spot strictly after h and, for a pair not in the list, strictly
\* after the next business day after h.
C2_SpotFromHorizon ==
    (op = "spot_from_horizon" /\ Holds(is_business_day(ccy, oracle, date))) =>
        /\ result.err = ""
        /\ Holds(is_valid_spot(ccy, oracle, result.val))
        /\ result.val > date
        /\ IF ccy \in {FastSettling[i] : i \in DOMAIN FastSettling}
           THEN result.val = next_valid_spot(ccy, oracle, date).val
           ELSE LET nb == next_business_day(ccy, oracle, date).val IN
                /\ result.val > nb
                /\ result.val = next_valid_spot(ccy, oracle, nb).val

\* a pair outside the list whose spot lies more than two days after the
\* horizon
C2_Witness ==
    /\ op = "spot_from_horizon"
    /\ ccy = EUR \o USD
    /\ result.err = ""
    /\ result.val > date + 2

\* C3: for a month or year tenor of N months the delivery date handed to
\* horizon_from_spot lies at most N calendar months after the spot date's
\* month, also when the two fall in different calendar years.
C3_DeliveryWithinMonths ==
    (/\ op = "expiry_from_tenor"
     /\ WellFormedTenor(tenor)
     /\ result.branch \in {"MY", "MY_step_back"}) =>
        LET n  == PyInt(SubSeq(tenor, 1, Len(tenor) - 1)).val
            nm == IF tenor[Len(tenor)] = "Y" THEN 12 * n ELSE n
        IN MonthIndex(result.delivery) - MonthIndex(result.spot) <= nm

\* C4: for every pair the constructor accepts is_business_day returns a
\* boolean: with exactly one leg USD, that the date is a weekday and no
\* holiday of the other leg's country; otherwise, that it is a weekday and
\* a holiday of neither leg's country.
C4_BusinessDayBoolean ==
    op = "is_business_day" =>
        /\ result.err = ""
        /\ result.val =
             IF (Leg1 = USD) # (Leg2 = USD)
             THEN IsWeekday(date)
                  /\ ~Closed(IF Leg1 = USD THEN Leg2 ELSE Leg1, date)
             ELSE IsWeekday(date) /\ ~Closed(Leg1, date) /\ ~Closed(Leg2, date)

\* C5: horizon_from_spot(spot_from_horizon(h)) = h for every business-day
\* horizon h.
C5_RoundTrip ==
    (op = "spot_from_horizon" /\ result.err = "") =>
        LET back == horizon_from_spot(ccy, oracle, result.val)
        IN back.err = "" /\ back.val = date

\* C6: expiry_from_tenor raises InputError, and returns no date, for every
\* tenor that is neither ON nor a positive count followed by D, W, M or Y.
C6_MalformedTenorRejected ==
    (op = "expiry_from_tenor" /\ ~WellFormedTenor(tenor)) =>
        result.err = "InputError"

\* C7: spot_from_horizon on a horizon that is not a business day, and
\* horizon_from_spot on a date that is not a valid spot, raise and return
\* no date.
C7_PreconditionsChecked ==
    /\ (op = "spot_from_horizon" /\ ~Holds(is_business_day(ccy, oracle, date)))
          => result.err # ""
    /\ (op = "horizon_from_spot" /\ ~Holds(is_valid_spot(ccy, oracle, date)))
          => result.err # ""

\* horizon_from_spot refused a business day that is a US holiday
C7_Witness ==
    /\ op = "horizon_from_spot"
    /\ Holds(is_business_day(ccy, oracle, date))
    /\ ~Holds(is_valid_spot(ccy, oracle, date))
    /\ result.err = "AssertionError"

\* C8: a walk that has found no date after MaxSearchDays single-day steps
\* has stopped and reported a search failure of its own.
C8_WalkBounded ==
    walk.depth > MaxSearchDays + 1 => walk.pc = "SearchFailed"

RECURSIVE Ascending(_)
Ascending(S) ==
    IF S = {} THEN <<>>
    ELSE LET m == CHOOSE x \in S : \A y \in S : x <= y
         IN <<m>> \o Ascending(S \ {m})

\* C9: bdate_range returns, ascending and without repeats, exactly the
\* dates d with start_date <= d <= end_date for which is_business_day
\* holds.
C9_RangeExact ==
    op = "bdate_range" =>
        /\ result.err = ""
        /\ result.val =
             Ascending({d \in date..end_date :
                           Holds(is_business_day(ccy, oracle, d))})

\* C10: a date expiry_from_tenor returns is a valid expiry, and the month/
\* year branch never takes its last return (the step back to the previous
\* valid expiry).
C10_ExpiryValid ==
    (op = "expiry_from_tenor" /\ result.err = "") =>
        /\ Holds(is_valid_expiry(ccy, oracle, result.val))
        /\ result.branch # "MY_step_back"

\* a one-month tenor whose spot date plus one month was no valid spot,
\* resolved by the month/year branch's first return
C10_Witness ==
    /\ op = "expiry_from_tenor"
    /\ tenor = <<"1", "M">>
    /\ result.err = ""
    /\ result.branch = "MY"
    /\ MonthIndex(result.delivery) = MonthIndex(result.spot) + 1
    /\ ~Holds(is_valid_spot(ccy, oracle, AddMonths(result.spot, 1)))

====
